---- MODULE Spec2Model ----
\* Push-to-talk session controller of parakeet-writer:
\* run_event_loop / handle_transcription (event_loop.rs), AudioRecorder
\* start/stop (audio.rs), PostProcessor::process (post_process.rs) and
\* output_text (output.rs), together with the threads that run beside the
\* controller: the hotkey listener, the Ctrl+C handler, the blocking
\* transcription worker and the capture callback.
EXTENDS Integers, Sequences, FiniteSets, TLC

\* ---------------------------------------------------------------- bounds
MaxEvents == 3      \* hotkey events the listener emits in one run
MaxTextLen == 2     \* longest transcript / cleanup answer, in characters
PollTicks == 2      \* clock resolution: ticks per poll interval
MaxSamples == 2     \* chunks the capture callback delivers into one buffer
MaxSessions == 2    \* sessions followed with their audio data
MaxSends == 36      \* sends the listener makes where the queue is followed
MaxInput == 9       \* longest input of resample, in samples
MaxOut == 15        \* longest output of resample that is computed
MaxChunk == 4       \* longest chunk handed to write_samples, in samples
MaxChannels == 3    \* most channels of the input device

\* ------------------------------------------------------ program constants
ChannelCap == 32    \* mpsc::channel(32)
MaxAttempts == 3    \* for attempt in 0..3
DEFAULT_INPUT_SAMPLE_RATE == 48000
TARGET_OUTPUT_SAMPLE_RATE == 16000
F64Bits == 53       \* significand of f64
F32Bits == 24       \* significand of f32

\* ------------------------------------------------------------------ text
Chars == {" ", "a"}
Texts == UNION {[1..k -> Chars] : k \in 0..MaxTextLen}

RECURSIVE TrimStart(_)
TrimStart(s) ==
    IF s = <<>> THEN s
    ELSE IF Head(s) = " " THEN TrimStart(Tail(s)) ELSE s

RECURSIVE TrimEnd(_)
TrimEnd(s) ==
    IF s = <<>> THEN s
    ELSE IF s[Len(s)] = " " THEN TrimEnd(SubSeq(s, 1, Len(s) - 1)) ELSE s

\* a plausible slip: the transcript is used as the engine returned it
TrimNone(s) == s

\* str::trim
Trim(s) == TrimEnd(TrimStart(s))

IsBlank(s) == \A i \in 1..Len(s) : s[i] = " "

\* t is r without the spaces at its two ends
IsTrimOf(t, r) ==
    /\ t # <<>> => (t[1] # " " /\ t[Len(t)] # " ")
    /\ \E i \in 0..Len(r) :
          /\ i + Len(t) <= Len(r)
          /\ SubSeq(r, i + 1, i + Len(t)) = t
          /\ \A q \in (1..i) \cup ((i + Len(t) + 1)..Len(r)) : r[q] = " "

\* ------------------------------------------------------------ vocabulary
Kinds == {"Pressed", "Released"}
Modes == {"Typing", "Clipboard", "Both"}
CleanupErrs == {"NetworkError", "ServiceError"}
SinkDone == {"ok", "err"}
PipelinePcs == {"grace", "write", "transcribe", "process", "processed", "output", "remove"}
LoopPcs == {"poll", "drain"} \cup PipelinePcs
ExitPcs == {"unload", "unloading", "exited", "panicked"}
Failures == {"transErr", "taskErr", "cleanupErr", "outErr"}
NoText == <<"-">>
NoRes == [k |-> "none"]
CbIdle == [pc |-> "idle"]
\* who stored to the shutdown flag last
FlagWriters == {"none", "ctrlc", "listener"}

VARIABLES
    mode, cleanup,
    running, chan, emitted, listener,
    pc, is_recording, pollLeft,
    stream, files,
    engineOwner, poisoned, unloaded,
    wpc, wres,
    text, final_text, attempt, waited, waits, last_error, attemptErr, ppRes, nPP,
    typeSt, clipSt, typed, clipped, outArg, nOut, outRes,
    streamAtStart, lastStart, done, idleQuiet, exitCause, outcome,
    samples, snapshot, cb, bufLock, delivered,
    ignored, firstErr, sent,
    nStop, nTrans, nType, nClip,
    flagWriter, received,
    input, from_rate, to_rate, output, via, data, channels, mixed,
    sample_format, device_data, float_data

cfgVars == <<mode, cleanup>>
envVars == <<running, chan, emitted, listener>>
recVars == <<stream, files>>
engVars == <<engineOwner, poisoned, unloaded>>
wrkVars == <<wpc, wres>>
ppVars == <<text, final_text, attempt, waited, waits, last_error, attemptErr, ppRes, nPP>>
outVars == <<typeSt, clipSt, typed, clipped, outArg, nOut, outRes>>
histVars == <<streamAtStart, lastStart, exitCause>>
audVars == <<samples, snapshot, cb, bufLock, delivered>>
callVars == <<nStop, nTrans, nType, nClip>>

\* the controller and everything beside it
ctrlVars == <<mode, cleanup, running, chan, emitted, listener,
              pc, is_recording, pollLeft, stream, files,
              engineOwner, poisoned, unloaded, wpc, wres,
              text, final_text, attempt, waited, waits, last_error, attemptErr, ppRes, nPP,
              typeSt, clipSt, typed, clipped, outArg, nOut, outRes,
              streamAtStart, lastStart, done, idleQuiet, exitCause, outcome,
              samples, snapshot, cb, bufLock, delivered, ignored, firstErr, sent,
              nStop, nTrans, nType, nClip, flagWriter, received>>

\* what the device hands to the capture callback and what it is turned into
encVars == <<sample_format, device_data, float_data>>

\* the inputs and results of the recorder's sample functions
dspVars == <<input, from_rate, to_rate, output, via, data, channels, mixed,
             sample_format, device_data, float_data>>

vars == <<ctrlVars, dspVars>>

\* ------------------------------------------------- controller state names
\* Idle / Recording / Draining / Processing as the spec names them, read off
\* the controller's position and its is_recording flag.
CtrlState ==
    IF pc = "poll" THEN (IF is_recording THEN "Recording" ELSE "Idle")
    ELSE IF pc = "drain" THEN "Draining"
    ELSE IF pc \in PipelinePcs THEN "Processing"
    ELSE "Exited"

\* a pipeline (stop, transcription, cleanup, output, removal) is in flight
InFlight == pc \in PipelinePcs

\* the receiver lives until run_event_loop returns
ReceiverAlive == pc \notin {"exited", "panicked"}

\* ------------------------------------------------------------------ Init
CtrlInit ==
    /\ mode \in Modes
    /\ cleanup \in BOOLEAN
    /\ running = TRUE
    /\ chan = <<>>
    /\ emitted = 0
    /\ listener = "run"
    /\ pc = "poll"
    /\ is_recording = FALSE
    /\ pollLeft = PollTicks
    /\ stream = "None"
    /\ files = 0
    /\ engineOwner = "none"
    /\ poisoned = FALSE
    /\ unloaded = 0
    /\ wpc = "none"
    /\ wres = NoRes
    /\ text = NoText
    /\ final_text = NoText
    /\ attempt = 0
    /\ waited = FALSE
    /\ waits = 0
    /\ last_error = "none"
    /\ attemptErr = "none"
    /\ ppRes = NoRes
    /\ nPP = 0
    /\ typeSt = "off"
    /\ clipSt = "off"
    /\ typed = NoText
    /\ clipped = NoText
    /\ outArg = NoText
    /\ nOut = 0
    /\ outRes = "none"
    /\ streamAtStart = "never"
    /\ lastStart = [at |-> "never", fresh |-> TRUE, taken |-> "never"]
    /\ done = 0
    /\ idleQuiet = 0
    /\ exitCause = "none"
    /\ outcome = "none"
    /\ samples = <<>>
    /\ snapshot = <<>>
    /\ cb = CbIdle
    /\ bufLock = "none"
    /\ delivered = <<>>
    /\ ignored = "none"
    /\ firstErr = "none"
    /\ sent = 0
    /\ nStop = 0
    /\ nTrans = 0
    /\ nType = 0
    /\ nClip = 0
    /\ flagWriter = "none"
    /\ received = 0

\* the capture callback has not run
EncIdle ==
    /\ sample_format = "F32"
    /\ device_data = <<>>
    /\ float_data = <<>>

\* none of the sample functions has been called
DspIdle ==
    /\ input = <<>>
    /\ from_rate = DEFAULT_INPUT_SAMPLE_RATE
    /\ to_rate = TARGET_OUTPUT_SAMPLE_RATE
    /\ output = <<>>
    /\ via = "none"
    /\ data = <<>>
    /\ channels = 1
    /\ mixed = <<>>
    /\ EncIdle

Init == CtrlInit /\ DspIdle

\* ------------------------------------------------------- hotkey listener
\* a plausible slip: the new event goes in front of the waiting ones
EnqueueFront(q, e) == <<e>> \o q

\* the channel hands messages to recv() in the order they were sent
Enqueue(q, e) == Append(q, e)

\* tx.blocking_send(e): the event is queued when the channel has room; the
\* sender waits while it is full.  Each queued event remembers the state the
\* controller was in when it was emitted and how many sessions had ended;
\* seq is its number among the sends where the sends are numbered, else 0.
Emit(k) ==
    /\ listener = "run"
    /\ emitted < MaxEvents
    /\ ReceiverAlive
    /\ Len(chan) < ChannelCap
    /\ chan' = Enqueue(chan, [kind |-> k, at |-> CtrlState, sess |-> done,
                             seq |-> 0])
    /\ emitted' = emitted + 1
    /\ idleQuiet' = 0
    /\ UNCHANGED <<audVars, ignored, firstErr, sent, dspVars, cfgVars,
                   flagWriter, received, callVars, running, listener, pc,
                   is_recording, pollLeft, recVars, engVars, wrkVars, ppVars,
                   outVars, histVars, done, outcome>>

\* let _ = tx.blocking_send(e) after the receiver is gone: the error is dropped
EmitDropped ==
    /\ listener = "run"
    /\ emitted < MaxEvents
    /\ ~ReceiverAlive
    /\ emitted' = emitted + 1
    /\ UNCHANGED <<audVars, ignored, firstErr, sent, dspVars, cfgVars,
                   flagWriter, received, callVars, running, chan, listener,
                   pc, is_recording, pollLeft, recVars, engVars, wrkVars,
                   ppVars, outVars, histVars, done, idleQuiet, outcome>>

\* the callback runs once more for a KeyPress of the hotkey while a
\* recording is on (the key is held and repeats, or is pressed again):
\* tx.blocking_send(Pressed).  The listener thread is not limited in the
\* number of events it sends; one further event is delivered whenever the
\* recording controller has emptied the queue.
KeyRepeat ==
    /\ listener = "run"
    /\ CtrlState = "Recording"
    /\ chan = <<>>
    /\ chan' = <<[kind |-> "Pressed", at |-> CtrlState, sess |-> done,
                 seq |-> 0]>>
    /\ idleQuiet' = 0
    /\ UNCHANGED <<audVars, ignored, firstErr, sent, dspVars, cfgVars,
                   flagWriter, received, callVars, running, emitted, listener,
                   pc, is_recording, pollLeft, recVars, engVars, wrkVars,
                   ppVars, outVars, histVars, done, outcome>>

\* Linux listener: while running.load(..) ends, the thread returns and
\* drops tx
ListenerStop ==
    /\ listener = "run"
    /\ ~running
    /\ listener' = "gone"
    /\ UNCHANGED <<audVars, ignored, firstErr, sent, dspVars, cfgVars,
                   flagWriter, received, callVars, running, chan, emitted, pc,
                   is_recording, pollLeft, recVars, engVars, wrkVars, ppVars,
                   outVars, histVars, done, idleQuiet, outcome>>

\* a plausible slip: the failed listener leaves the flag as it is
ListenFailedRuns == TRUE

\* running.store(false, Ordering::SeqCst): the value the listener stores
ListenFailed == FALSE

\* macOS listener: listen(callback) returns Err: running.store(false), and
\* the callback that owns tx is dropped
ListenerFail ==
    /\ listener = "run"
    /\ listener' = "gone"
    /\ running' = ListenFailed
    /\ flagWriter' = "listener"
    /\ UNCHANGED <<audVars, ignored, firstErr, sent, dspVars, cfgVars,
                   received, callVars, chan, emitted, pc, is_recording,
                   pollLeft, recVars, engVars, wrkVars, ppVars, outVars,
                   histVars, done, idleQuiet, outcome>>

\* ctrlc handler: r.store(false)
Interrupt ==
    /\ running
    /\ running' = FALSE
    /\ flagWriter' = "ctrlc"
    /\ UNCHANGED <<audVars, ignored, firstErr, sent, dspVars, cfgVars,
                   received, callVars, chan, emitted, listener, pc,
                   is_recording, pollLeft, recVars, engVars, wrkVars, ppVars,
                   outVars, histVars, done, idleQuiet, outcome>>

\* ------------------------------------------------------- the poll loop
\* a plausible slip: the Pressed arm without its guard
PressedArmAlways(rec) == TRUE

\* Some(HotkeyEvent::Pressed) if !is_recording
PressedArm(rec) == ~rec

\* a plausible slip: the Released arm without its guard
ReleasedArmAlways(rec) == TRUE

\* Some(HotkeyEvent::Released) if is_recording
ReleasedArm(rec) == rec

\* a plausible slip: the timeout arm that never looks at the flag
TimeoutIgnoresFlag(r) == FALSE

\* if !running.load(..) { break }
TimeoutBreaks(r) == ~r

\* the controller is Idle, nothing is queued and the flag is set
IdleQuietCond == pc = "poll" /\ ~is_recording /\ chan = <<>> /\ ~running

\* one clock tick passes while the select! waits; the sleep arm is taken
\* once its 100 ms have run out, so no tick passes over an expired timer
Tick ==
    /\ pc = "poll"
    /\ pollLeft > 0
    /\ pollLeft' = pollLeft - 1
    /\ idleQuiet' = IF IdleQuietCond
                    THEN (IF idleQuiet > PollTicks THEN idleQuiet ELSE idleQuiet + 1)
                    ELSE 0
    /\ UNCHANGED <<audVars, ignored, firstErr, sent, dspVars, cfgVars,
                   flagWriter, received, callVars, envVars, pc, is_recording,
                   recVars, engVars, wrkVars, ppVars, outVars, histVars, done,
                   outcome>>

\* a plausible slip: start() that keeps what the buffer holds
StartKeeps(buf) == buf

\* self.samples.lock().unwrap().clear()
StartClear(buf) == <<>>

\* a plausible slip: the `continue` is missing and the flag is set anyway
StartErrRecords(rec) == TRUE

\* Err(e) => { log::error!(..); continue; }: the flag is not touched
AfterStartErr(rec) == rec

\* a plausible slip: the stream is stored before play() is tried
StartStoresEarly(ok, st) == "Some"

\* self.stream = Some(stream) is the last statement before Ok(()): every
\* earlier `?` returns with the field as it was
StartedStream(ok, st) == IF ok THEN "Some" ELSE st

\* Pressed arm: recorder.start(); on Err log and continue, else
\* is_recording = true.  start() stores the new stream only on success.
RecvPressedStart(ok) ==
    /\ pc = "poll"
    /\ chan # <<>>
    /\ Head(chan).kind = "Pressed"
    /\ PressedArm(is_recording)
    /\ chan' = Tail(chan)
    /\ received' = Head(chan).seq
    /\ streamAtStart' = stream
    /\ lastStart' = [at |-> Head(chan).at, fresh |-> (Head(chan).sess = done),
                     taken |-> CtrlState]
    /\ stream' = StartedStream(ok, stream)
    /\ is_recording' = IF ok THEN TRUE ELSE AfterStartErr(is_recording)
    /\ pollLeft' = PollTicks
    /\ ignored' = "none"
    /\ bufLock = "none"
    /\ \E cleared \in (IF ok THEN {TRUE} ELSE BOOLEAN) :
          /\ samples' = IF cleared THEN StartClear(samples) ELSE samples
          /\ delivered' = IF cleared THEN <<>> ELSE delivered
    /\ idleQuiet' = 0
    /\ UNCHANGED <<snapshot, cb, bufLock, firstErr, sent, dspVars, cfgVars,
                   flagWriter, callVars, running, emitted, listener, pc,
                   files, engVars, wrkVars, ppVars, outVars, exitCause, done,
                   outcome>>

\* a plausible slip: capture stopped as soon as the key is released
StoppedAtRelease(st) == "None"

\* the Released arm does not touch the recorder before its sleep
TrailingStream(st) == st

\* Released arm: tokio::time::sleep(250 ms) begins (the select! is over and
\* its 100 ms sleep is dropped; each iteration creates a new one)
RecvReleased ==
    /\ pc = "poll"
    /\ chan # <<>>
    /\ Head(chan).kind = "Released"
    /\ ReleasedArm(is_recording)
    /\ chan' = Tail(chan)
    /\ received' = Head(chan).seq
    /\ pc' = "drain"
    /\ stream' = TrailingStream(stream)
    /\ pollLeft' = PollTicks
    /\ ignored' = "none"
    /\ idleQuiet' = 0
    /\ UNCHANGED <<audVars, firstErr, sent, dspVars, cfgVars, flagWriter,
                   callVars, running, emitted, listener, is_recording, files,
                   engVars, wrkVars, ppVars, outVars, histVars, done,
                   outcome>>

\* Some(_) => {}
RecvIgnored ==
    /\ pc = "poll"
    /\ chan # <<>>
    /\ \/ Head(chan).kind = "Pressed" /\ ~PressedArm(is_recording)
       \/ Head(chan).kind = "Released" /\ ~ReleasedArm(is_recording)
    /\ chan' = Tail(chan)
    /\ received' = Head(chan).seq
    /\ pollLeft' = PollTicks
    /\ ignored' = Head(chan).kind
    /\ idleQuiet' = 0
    /\ UNCHANGED <<audVars, firstErr, sent, dspVars, cfgVars, flagWriter,
                   callVars, running, emitted, listener, pc, is_recording,
                   recVars, engVars, wrkVars, ppVars, outVars, histVars, done,
                   outcome>>

\* a plausible slip: None handled like an ignored event, `None => {}`
ClosedIgnored == "poll"

\* None => break
ClosedNext == "unload"

\* None => break: every sender is gone and the queue is drained
RecvClosed ==
    /\ pc = "poll"
    /\ chan = <<>>
    /\ listener = "gone"
    /\ pc' = ClosedNext
    /\ exitCause' = "closed"
    /\ pollLeft' = PollTicks
    /\ UNCHANGED <<audVars, ignored, firstErr, sent, dspVars, cfgVars,
                   flagWriter, received, callVars, envVars, is_recording,
                   recVars, engVars, wrkVars, ppVars, outVars, streamAtStart,
                   lastStart, done, idleQuiet, outcome>>

\* sleep(100 ms) arm: break when the flag is clear, else the next iteration
Timeout ==
    /\ pc = "poll"
    /\ pollLeft = 0
    /\ IF TimeoutBreaks(running)
       THEN /\ pc' = "unload"
            /\ exitCause' = "shutdown"
            /\ pollLeft' = PollTicks
       ELSE /\ pollLeft' = PollTicks
            /\ UNCHANGED <<pc, exitCause>>
    /\ UNCHANGED <<audVars, ignored, firstErr, sent, dspVars, cfgVars,
                   flagWriter, received, callVars, envVars, is_recording,
                   recVars, engVars, wrkVars, ppVars, outVars, streamAtStart,
                   lastStart, done, idleQuiet, outcome>>

\* ---------------------------------------------- a session's pipeline
\* one more call of an operation within the session (counted as far as two)
CountCall(n) == IF n < 2 THEN n + 1 ELSE n

\* what every exit of handle_transcription leaves behind: the per-session
\* values are gone and the loop starts its next iteration
SessionReset ==
    /\ done' = done + 1
    /\ pollLeft' = PollTicks
    /\ wres' = NoRes
    /\ text' = NoText
    /\ final_text' = NoText
    /\ attempt' = 0
    /\ waited' = FALSE
    /\ waits' = 0
    /\ last_error' = "none"
    /\ attemptErr' = "none"
    /\ ppRes' = NoRes
    /\ nPP' = 0
    /\ typeSt' = "off"
    /\ clipSt' = "off"
    /\ typed' = NoText
    /\ clipped' = NoText
    /\ outArg' = NoText
    /\ nOut' = 0
    /\ outRes' = "none"
    /\ outcome' = "none"
    /\ nStop' = 0
    /\ nTrans' = 0
    /\ nType' = 0
    /\ nClip' = 0

\* a plausible slip: stop() that leaves the stream in place
StopKeepsStream(s) == s

\* self.stream = None
StopStream(s) == "None"

\* a plausible slip: a stop() error propagated with ? out of the loop
StopErrFatal == "panicked"

\* Err(e) => log::error!("Failed to stop recording"): back to the loop
StopErrNext == "poll"

\* the 250 ms are over: is_recording = false, handle_transcription calls
\* recorder.stop(), which drops the stream and sleeps its 100 ms
DrainDone ==
    /\ pc = "drain"
    /\ is_recording' = FALSE
    /\ stream' = StopStream(stream)
    /\ pc' = "grace"
    /\ nStop' = CountCall(nStop)
    /\ UNCHANGED <<nTrans, nType, nClip>>
    /\ UNCHANGED <<audVars, ignored, firstErr, sent, dspVars, cfgVars,
                   flagWriter, received, envVars, pollLeft, files, engVars,
                   wrkVars, ppVars, outVars, histVars, done, idleQuiet,
                   outcome>>

\* a plausible slip: the buffer read without taking its lock
BufLockNone(who) == "none"

\* samples.lock(): the caller holds the buffer until its guard is dropped
BufLock(who) == who

\* stop() after its 100 ms sleep: self.samples.lock().unwrap(); what it
\* reads under the lock is what the artifact is made from.  A callback that
\* was running when the stream was dropped has finished within the sleep.
StopLock ==
    /\ pc = "grace"
    /\ cb = CbIdle
    /\ bufLock = "none"
    /\ bufLock' = BufLock("stop")
    /\ snapshot' = samples
    /\ pc' = "write"
    /\ UNCHANGED <<samples, cb, delivered, ignored, firstErr, sent, dspVars,
                   cfgVars, flagWriter, received, callVars, envVars,
                   is_recording, pollLeft, recVars, engVars, wrkVars, ppVars,
                   outVars, histVars, done, idleQuiet, outcome>>

\* the rest of stop(): the buffer is resampled and written to a kept
\* temporary file, and the guard is dropped as stop() returns.
\* tempfile()/keep() may fail before a file is left behind (errNoFile);
\* File::create, WavWriter::new, write_sample and finalize fail after the
\* kept file exists (errFile).  On Ok the transcription task is spawned
\* with the path.
StopFinish(res) ==
    /\ pc = "write"
    /\ bufLock' = "none"
    /\ files' = IF res = "errNoFile" THEN files ELSE files + 1
    /\ IF res = "ok"
       THEN /\ pc' = "transcribe"
            /\ wpc' = "lock"
            /\ UNCHANGED <<wres, ppVars, outVars, done, pollLeft, outcome,
                           callVars>>
       ELSE /\ pc' = StopErrNext
            /\ SessionReset
            /\ UNCHANGED wpc
    /\ UNCHANGED <<samples, snapshot, cb, delivered, ignored, firstErr, sent,
                   dspVars, cfgVars, flagWriter, received, envVars,
                   is_recording, stream, engVars, histVars, idleQuiet>>

\* ------------------------------------------------------ capture callback
\* the input stream hands a chunk to the data callback while the stream is
\* active; the callback converts it (I16, I32) before write_samples takes
\* the lock.  Each chunk remembers the session and the controller state it
\* was delivered in.
CbBegin ==
    /\ stream = "Some"
    /\ cb = CbIdle
    /\ Len(delivered) < MaxSamples
    /\ LET chunk == [sess |-> done, at |-> CtrlState] IN
          /\ cb' = [pc |-> "conv", chunk |-> chunk]
          /\ delivered' = Append(delivered, chunk)
    /\ UNCHANGED <<samples, snapshot, bufLock, ignored, firstErr, sent,
                   dspVars, cfgVars, flagWriter, received, callVars, envVars,
                   pc, is_recording, pollLeft, recVars, engVars, wrkVars,
                   ppVars, outVars, histVars, done, idleQuiet, outcome>>

\* write_samples: let mut samples = samples.lock().unwrap()
CbLock ==
    /\ cb.pc = "conv"
    /\ bufLock = "none"
    /\ bufLock' = BufLock("cb")
    /\ cb' = [cb EXCEPT !.pc = "append"]
    /\ UNCHANGED <<samples, snapshot, delivered, ignored, firstErr, sent,
                   dspVars, cfgVars, flagWriter, received, callVars, envVars,
                   pc, is_recording, pollLeft, recVars, engVars, wrkVars,
                   ppVars, outVars, histVars, done, idleQuiet, outcome>>

\* write_samples: the chunk is appended and the guard is dropped
CbAppend ==
    /\ cb.pc = "append"
    /\ samples' = Append(samples, cb.chunk)
    /\ bufLock' = "none"
    /\ cb' = CbIdle
    /\ UNCHANGED <<snapshot, delivered, ignored, firstErr, sent, dspVars,
                   cfgVars, flagWriter, received, callVars, envVars, pc,
                   is_recording, pollLeft, recVars, engVars, wrkVars, ppVars,
                   outVars, histVars, done, idleQuiet, outcome>>

\* ------------------------------------------------- transcription worker
\* a plausible slip: the engine call made without taking the mutex
AcquireNothing(who) == "none"

\* engine.lock(): the caller becomes the owner of the mutex
Acquire(who) == who

\* spawn_blocking closure, engine.lock().unwrap(): a poisoned mutex makes
\* the unwrap panic, which the JoinHandle reports as a task failure
WorkerLock ==
    /\ wpc = "lock"
    /\ IF poisoned
       THEN /\ wpc' = "done"
            /\ wres' = [k |-> "panic"]
            /\ UNCHANGED engineOwner
       ELSE /\ engineOwner = "none"
            /\ engineOwner' = Acquire("worker")
            /\ wpc' = "run"
            /\ UNCHANGED wres
    /\ UNCHANGED <<audVars, ignored, firstErr, sent, dspVars, cfgVars,
                   flagWriter, received, callVars, envVars, pc, is_recording,
                   pollLeft, recVars, poisoned, unloaded, ppVars, outVars,
                   histVars, done, idleQuiet, outcome>>

\* engine.transcribe_file(&path, None).map_err(..): a transcript, an engine
\* error, or a panic inside the call, which poisons the mutex as the guard
\* is dropped during unwinding
WorkerRun(res) ==
    /\ wpc = "run"
    /\ wres' = res
    /\ wpc' = "done"
    /\ nTrans' = CountCall(nTrans)
    /\ UNCHANGED <<nStop, nType, nClip>>
    /\ engineOwner' = "none"
    /\ poisoned' = (poisoned \/ res.k = "panic")
    /\ UNCHANGED <<audVars, ignored, firstErr, sent, dspVars, cfgVars,
                   flagWriter, received, envVars, pc, is_recording, pollLeft,
                   recVars, unloaded, ppVars, outVars, histVars, done,
                   idleQuiet, outcome>>

WorkerResults ==
    {[k |-> "ok", text |-> t] : t \in Texts} \cup {[k |-> "err"], [k |-> "panic"]}

\* --------------------------------------------------- after transcription
\* if !text.is_empty()
HasSpeech(t) == t # <<>>

\* output_text(&final_text, mode) is entered: Typing awaits type_text,
\* Clipboard awaits copy_to_clipboard, Both hands both futures to join!
EnterOutput(t) ==
    /\ pc' = "output"
    /\ final_text' = t
    /\ outArg' = t
    /\ nOut' = nOut + 1
    /\ typeSt' = IF mode \in {"Typing", "Both"} THEN "run" ELSE "off"
    /\ clipSt' = IF mode \in {"Clipboard", "Both"} THEN "run" ELSE "off"
    /\ UNCHANGED <<typed, clipped, outRes>>

\* the spawn_blocking handle resolves and the result is matched (the
\* transcription lives until the arm ends, text borrows from it):
\* Ok(Ok(t)) trims the text and goes on to cleanup or output when it is not
\* empty, else prints (no speech detected); Ok(Err) and Err are logged
JoinWorker ==
    /\ pc = "transcribe"
    /\ wpc = "done"
    /\ wpc' = "none"
    /\ IF wres.k = "ok"
       THEN LET t == Trim(wres.text) IN
            /\ text' = t
            /\ IF HasSpeech(t)
               THEN IF cleanup
                    THEN /\ pc' = "process"
                         /\ nPP' = nPP + 1
                         /\ UNCHANGED <<final_text, outVars, outcome>>
                    ELSE /\ EnterOutput(t)
                         /\ UNCHANGED <<nPP, outcome>>
               ELSE /\ pc' = "remove"
                    /\ outcome' = "nospeech"
                    /\ UNCHANGED <<final_text, nPP, outVars>>
       ELSE /\ pc' = "remove"
            /\ outcome' = IF wres.k = "err" THEN "transErr" ELSE "taskErr"
            /\ UNCHANGED <<text, final_text, nPP, outVars>>
    /\ UNCHANGED <<audVars, ignored, firstErr, sent, dspVars, cfgVars,
                   flagWriter, received, callVars, envVars, is_recording,
                   pollLeft, recVars, engVars, wres, attempt, waited, waits,
                   last_error, attemptErr, ppRes, histVars, done, idleQuiet>>

\* ------------------------------------------------ PostProcessor::process
\* a plausible slip: only the first failure is kept
KeepFirstError(prev, e) == IF prev = "none" THEN e ELSE prev

\* last_error = Some(e)
LastError(prev, e) == e

\* Ok(processed) => processed, Err(e) => text.to_string()
Fallback(res, raw) == IF res.k = "ok" THEN res.text ELSE raw

\* a plausible slip: a retry loop whose counter is not advanced
SameAttempt(a) == a

\* for attempt in 0..3: the next iteration
NextAttempt(a) == a + 1

\* one more request has been sent (counted as far as one past the most
\* that process can send)
CountRequest(n) == IF n <= MaxAttempts THEN n + 1 ELSE n

\* a plausible slip: the wait placed before every request
WaitAlways(a) == TRUE

\* if attempt > 0
NeedsWait(a) == a > 0

\* if attempt > 0 { sleep(1 s) }
PPWait ==
    /\ pc = "process"
    /\ NeedsWait(attempt)
    /\ ~waited
    /\ waited' = TRUE
    /\ waits' = waits + 1
    /\ UNCHANGED <<audVars, ignored, firstErr, sent, dspVars, cfgVars,
                   flagWriter, received, callVars, envVars, pc, is_recording,
                   pollLeft, recVars, engVars, wrkVars, text, final_text,
                   attempt, last_error, attemptErr, ppRes, nPP, outVars,
                   histVars, done, idleQuiet, outcome>>

\* send_chat_messages(request) succeeds: process returns the trimmed answer
PPSendOk(resp) ==
    /\ pc = "process"
    /\ attempt < MaxAttempts
    /\ ~NeedsWait(attempt) \/ waited
    /\ ppRes' = [k |-> "ok", text |-> Trim(resp), raw |-> resp]
    /\ sent' = CountRequest(sent)
    /\ pc' = "processed"
    /\ UNCHANGED <<audVars, ignored, firstErr, dspVars, cfgVars, flagWriter,
                   received, callVars, envVars, is_recording, pollLeft,
                   recVars, engVars, wrkVars, text, final_text, attempt,
                   waited, waits, last_error, attemptErr, nPP, outVars,
                   histVars, done, idleQuiet, outcome>>

\* send_chat_messages(request) fails: the error is remembered; after the
\* third failure process returns Err(last_error)
PPSendErr(e) ==
    /\ pc = "process"
    /\ attempt < MaxAttempts
    /\ ~NeedsWait(attempt) \/ waited
    /\ attempt' = NextAttempt(attempt)
    /\ waited' = FALSE
    /\ sent' = CountRequest(sent)
    /\ last_error' = LastError(last_error, e)
    /\ attemptErr' = e
    /\ IF NextAttempt(attempt) = MaxAttempts
       THEN /\ ppRes' = [k |-> "err", err |-> LastError(last_error, e)]
            /\ pc' = "processed"
       ELSE UNCHANGED <<pc, ppRes>>
    /\ UNCHANGED <<audVars, ignored, firstErr, dspVars, cfgVars, flagWriter,
                   received, callVars, envVars, is_recording, pollLeft,
                   recVars, engVars, wrkVars, text, final_text, waits, nPP,
                   outVars, histVars, done, idleQuiet, outcome>>

\* the caller matches what process returned: Ok(processed) is the final
\* text; Err(e) is logged and the trimmed transcript is the final text.
\* process's locals are gone; output_text is entered.
PPReturn ==
    /\ pc = "processed"
    /\ EnterOutput(Fallback(ppRes, text))
    /\ outcome' = IF ppRes.k = "err" THEN "cleanupErr" ELSE outcome
    /\ attempt' = 0
    /\ waited' = FALSE
    /\ waits' = 0
    /\ sent' = 0
    /\ last_error' = "none"
    /\ attemptErr' = "none"
    /\ ppRes' = NoRes
    /\ UNCHANGED <<audVars, ignored, firstErr, dspVars, cfgVars, flagWriter,
                   received, callVars, envVars, is_recording, pollLeft,
                   recVars, engVars, wrkVars, text, nPP, histVars, done,
                   idleQuiet>>

\* ----------------------------------------------------------- output_text
\* a plausible slip: try_join!, which returns at the first error and drops
\* the other future
JoinFirstError(t, c) == t = "err" \/ c = "err" \/ (t = "ok" /\ c = "ok")

\* tokio::join!(type_text(text), copy_to_clipboard(text)) resolves when both
\* futures have resolved
JoinReady(t, c) == t \in SinkDone /\ c \in SinkDone

OutputReady ==
    IF mode = "Typing" THEN typeSt \in SinkDone
    ELSE IF mode = "Clipboard" THEN clipSt \in SinkDone
    ELSE JoinReady(typeSt, clipSt)

\* a plausible slip: the two results examined in the other order
OutputResultClipFirst(m, t, c) ==
    IF m = "Typing" THEN (IF t = "err" THEN "TypeErr" ELSE "ok")
    ELSE IF m = "Clipboard" THEN (IF c = "err" THEN "ClipErr" ELSE "ok")
    ELSE IF c = "err" THEN "ClipErr"
    ELSE IF t = "err" THEN "TypeErr" ELSE "ok"

\* type_text(..).await? / copy_to_clipboard(..).await? /
\* type_result?; clip_result?; Ok(())
OutputResult(m, t, c) ==
    IF m = "Typing" THEN (IF t = "err" THEN "TypeErr" ELSE "ok")
    ELSE IF m = "Clipboard" THEN (IF c = "err" THEN "ClipErr" ELSE "ok")
    ELSE IF t = "err" THEN "TypeErr"
    ELSE IF c = "err" THEN "ClipErr" ELSE "ok"

\* a plausible slip: a sink that failed is run again
RetrySink(o) == IF o = "err" THEN "run" ELSE o

\* the sink's future resolves with its result, whatever it is
SinkAfter(o) == o

\* type_text: the typing command ran (text typed) or could not be run
TypeDone(o) ==
    /\ pc = "output"
    /\ typeSt = "run"
    /\ typeSt' = SinkAfter(o)
    /\ nType' = CountCall(nType)
    /\ UNCHANGED <<nStop, nTrans, nClip>>
    /\ firstErr' = IF o = "err" /\ firstErr = "none" THEN "type" ELSE firstErr
    /\ typed' = IF o = "ok" THEN outArg ELSE typed
    /\ UNCHANGED <<audVars, ignored, sent, dspVars, cfgVars, flagWriter,
                   received, envVars, pc, is_recording, pollLeft, recVars,
                   engVars, wrkVars, ppVars, clipSt, clipped, outArg, nOut,
                   outRes, histVars, done, idleQuiet, outcome>>

\* copy_to_clipboard: the clipboard command ran or could not be run
ClipDone(o) ==
    /\ pc = "output"
    /\ clipSt = "run"
    /\ clipSt' = SinkAfter(o)
    /\ nClip' = CountCall(nClip)
    /\ UNCHANGED <<nStop, nTrans, nType>>
    /\ firstErr' = IF o = "err" /\ firstErr = "none" THEN "clip" ELSE firstErr
    /\ clipped' = IF o = "ok" THEN outArg ELSE clipped
    /\ UNCHANGED <<audVars, ignored, sent, dspVars, cfgVars, flagWriter,
                   received, envVars, pc, is_recording, pollLeft, recVars,
                   engVars, wrkVars, ppVars, typeSt, typed, outArg, nOut,
                   outRes, histVars, done, idleQuiet, outcome>>

\* output_text returns; an Err is logged by the caller
OutputJoin ==
    /\ pc = "output"
    /\ OutputReady
    /\ outRes' = OutputResult(mode, typeSt, clipSt)
    /\ outcome' = IF outRes' # "ok" THEN "outErr"
                  ELSE IF outcome = "none" THEN "ok" ELSE outcome
    /\ pc' = "remove"
    /\ UNCHANGED <<audVars, ignored, firstErr, sent, dspVars, cfgVars,
                   flagWriter, received, callVars, envVars, is_recording,
                   pollLeft, recVars, engVars, wrkVars, ppVars, typeSt,
                   clipSt, typed, clipped, outArg, nOut, histVars, done,
                   idleQuiet>>

\* a plausible slip: the artifact is left behind
RemoveSkipped(f) == f

\* std::fs::remove_file(wav_path)
Removed(f) == f - 1

\* let _ = std::fs::remove_file(wav_path); handle_transcription returns
RemoveFile ==
    /\ pc = "remove"
    /\ files' = Removed(files)
    /\ pc' = "poll"
    /\ firstErr' = "none"
    /\ SessionReset
    /\ UNCHANGED <<audVars, ignored, sent, dspVars, cfgVars, flagWriter,
                   received, envVars, is_recording, stream, engVars, wpc,
                   histVars, idleQuiet>>

\* ------------------------------------------------------------ loop exit
\* engine.lock().unwrap(): a poisoned mutex makes run_event_loop panic
UnloadLock ==
    /\ pc = "unload"
    /\ IF poisoned
       THEN /\ pc' = "panicked"
            /\ UNCHANGED engineOwner
       ELSE /\ engineOwner = "none"
            /\ engineOwner' = Acquire("ctrl")
            /\ pc' = "unloading"
    /\ UNCHANGED <<audVars, ignored, firstErr, sent, dspVars, cfgVars,
                   flagWriter, received, callVars, envVars, is_recording,
                   pollLeft, recVars, poisoned, unloaded, wrkVars, ppVars,
                   outVars, histVars, done, idleQuiet, outcome>>

\* .unload_model(); the guard is dropped; Ok(())
UnloadDone ==
    /\ pc = "unloading"
    /\ unloaded' = unloaded + 1
    /\ engineOwner' = "none"
    /\ pc' = "exited"
    /\ UNCHANGED <<audVars, ignored, firstErr, sent, dspVars, cfgVars,
                   flagWriter, received, callVars, envVars, is_recording,
                   pollLeft, recVars, poisoned, wrkVars, ppVars, outVars,
                   histVars, done, idleQuiet, outcome>>

\* ------------------------------------------------------------------ Next
Next ==
    \/ \E k \in Kinds : Emit(k)
    \/ EmitDropped
    \/ ListenerStop
    \/ ListenerFail
    \/ Interrupt
    \/ Tick
    \/ \E ok \in BOOLEAN : RecvPressedStart(ok)
    \/ RecvReleased
    \/ RecvIgnored
    \/ RecvClosed
    \/ Timeout
    \/ DrainDone
    \/ StopLock
    \/ \E res \in {"ok", "errNoFile", "errFile"} : StopFinish(res)
    \/ WorkerLock
    \/ \E res \in WorkerResults : WorkerRun(res)
    \/ JoinWorker
    \/ PPWait
    \/ \E resp \in Texts : PPSendOk(resp)
    \/ \E e \in CleanupErrs : PPSendErr(e)
    \/ PPReturn
    \/ \E o \in SinkDone : TypeDone(o)
    \/ \E o \in SinkDone : ClipDone(o)
    \/ OutputJoin
    \/ RemoveFile
    \/ UnloadLock
    \/ UnloadDone

Spec == Init /\ [][Next]_vars

\* ------------------------------------------------- sessions with audio
\* the listener sends an event while the controller is at the poll with an
\* empty queue
Deliver(k) ==
    /\ listener = "run"
    /\ pc = "poll"
    /\ chan = <<>>
    /\ done < MaxSessions
    /\ chan' = <<[kind |-> k, at |-> CtrlState, sess |-> done, seq |-> 0]>>
    /\ UNCHANGED <<audVars, ignored, firstErr, sent, dspVars, cfgVars,
                   flagWriter, received, callVars, running, emitted, listener,
                   pc, is_recording, pollLeft, recVars, engVars, wrkVars,
                   ppVars, outVars, histVars, done, idleQuiet, outcome>>

\* The recorder followed through whole sessions together with the capture
\* callback: typing only, no cleanup, a transcription that fails, and an
\* event only when the queue is empty, none of which touches the recorder.
RecInit == Init /\ mode = "Typing" /\ ~cleanup

RecNext ==
    \/ \E k \in Kinds : Deliver(k)
    \/ CbBegin
    \/ CbLock
    \/ CbAppend
    \/ \E ok \in BOOLEAN : RecvPressedStart(ok)
    \/ RecvReleased
    \/ RecvIgnored
    \/ DrainDone
    \/ StopLock
    \/ \E res \in {"ok", "errNoFile", "errFile"} : StopFinish(res)
    \/ WorkerLock
    \/ WorkerRun([k |-> "err"])
    \/ JoinWorker
    \/ RemoveFile

RecSpec == RecInit /\ [][RecNext]_vars

\* ------------------------------------------------------------- progress
\* The tasks that run once started: the controller (one sequential task:
\* its receive, its timeout arm and every step of handle_transcription,
\* each external call returning with some result), the blocking worker,
\* the two sink futures polled by join!, and the clock.  The listener, the
\* user and Ctrl+C owe nothing.
Controller ==
    \/ \E ok \in BOOLEAN : RecvPressedStart(ok)
    \/ RecvReleased
    \/ RecvIgnored
    \/ RecvClosed
    \/ Timeout
    \/ DrainDone
    \/ StopLock
    \/ \E res \in {"ok", "errNoFile", "errFile"} : StopFinish(res)
    \/ JoinWorker
    \/ PPWait
    \/ \E resp \in Texts : PPSendOk(resp)
    \/ \E e \in CleanupErrs : PPSendErr(e)
    \/ PPReturn
    \/ OutputJoin
    \/ RemoveFile
    \/ UnloadLock
    \/ UnloadDone

Worker == WorkerLock \/ \E res \in WorkerResults : WorkerRun(res)

\* For progress a text matters only as empty, blank or not: the transcript
\* and the cleanup answer are drawn from three texts.
LiveTexts == {<<>>, <<" ">>, <<"a">>}

LiveResults ==
    {[k |-> "ok", text |-> t] : t \in LiveTexts} \cup {[k |-> "err"], [k |-> "panic"]}

LiveNext ==
    \/ \E k \in Kinds : Emit(k)
    \/ EmitDropped
    \/ KeyRepeat
    \/ ListenerStop
    \/ ListenerFail
    \/ Interrupt
    \/ Tick
    \/ \E ok \in BOOLEAN : RecvPressedStart(ok)
    \/ RecvReleased
    \/ RecvIgnored
    \/ RecvClosed
    \/ Timeout
    \/ DrainDone
    \/ StopLock
    \/ \E res \in {"ok", "errNoFile", "errFile"} : StopFinish(res)
    \/ WorkerLock
    \/ \E res \in LiveResults : WorkerRun(res)
    \/ JoinWorker
    \/ PPWait
    \/ \E resp \in LiveTexts : PPSendOk(resp)
    \/ \E e \in CleanupErrs : PPSendErr(e)
    \/ PPReturn
    \/ \E o \in SinkDone : TypeDone(o)
    \/ \E o \in SinkDone : ClipDone(o)
    \/ OutputJoin
    \/ RemoveFile
    \/ UnloadLock
    \/ UnloadDone

Fairness ==
    /\ WF_vars(Controller)
    /\ WF_vars(Worker)
    /\ WF_vars(\E o \in SinkDone : TypeDone(o))
    /\ WF_vars(\E o \in SinkDone : ClipDone(o))
    /\ WF_vars(Tick)

LiveSpec == Init /\ [][LiveNext]_vars /\ Fairness

\* ------------------------------------------------- the queue under load
\* One key is pressed and released in turn (the Linux listener drops the
\* autorepeat value 2), so the n-th send is a press when n is odd.
KindOf(n) == IF n % 2 = 1 THEN "Pressed" ELSE "Released"

\* tx.blocking_send(e) with room in the channel.  The sends are numbered.
\* Until the first session has ended the key is used at leisure (the queue
\* is empty) or hammered while the transcription keeps the controller away
\* from recv().
Send ==
    /\ listener = "run"
    /\ emitted < MaxSends
    /\ ReceiverAlive
    /\ Len(chan) < ChannelCap
    /\ done = 0
    /\ chan = <<>> \/ pc = "transcribe"
    /\ chan' = Enqueue(chan, [kind |-> KindOf(emitted + 1), at |-> CtrlState,
                             sess |-> done, seq |-> emitted + 1])
    /\ emitted' = emitted + 1
    /\ idleQuiet' = 0
    /\ UNCHANGED <<audVars, ignored, firstErr, sent, dspVars, cfgVars,
                   flagWriter, received, callVars, running, listener, pc,
                   is_recording, pollLeft, recVars, engVars, wrkVars, ppVars,
                   outVars, histVars, done, outcome>>

\* tx.blocking_send(e) with all 32 permits taken: the listener thread parks
\* inside the call, holding the event
SendBlocks ==
    /\ listener = "run"
    /\ emitted < MaxSends
    /\ ReceiverAlive
    /\ Len(chan) = ChannelCap
    /\ listener' = "blocked"
    /\ UNCHANGED <<audVars, ignored, firstErr, sent, dspVars, cfgVars,
                   flagWriter, received, callVars, running, chan, emitted, pc,
                   is_recording, pollLeft, recVars, engVars, wrkVars, ppVars,
                   outVars, histVars, done, idleQuiet, outcome>>

\* the parked blocking_send returns: Ok once recv() has freed a permit and
\* the event is queued, Err once the receiver is dropped (let _ = ..)
SendResumes ==
    /\ listener = "blocked"
    /\ Len(chan) < ChannelCap \/ ~ReceiverAlive
    /\ listener' = "run"
    /\ emitted' = emitted + 1
    /\ chan' = IF ReceiverAlive
               THEN Enqueue(chan, [kind |-> KindOf(emitted + 1),
                                   at |-> CtrlState, sess |-> done,
                                   seq |-> emitted + 1])
               ELSE chan
    /\ idleQuiet' = IF ReceiverAlive THEN 0 ELSE idleQuiet
    /\ UNCHANGED <<audVars, ignored, firstErr, sent, dspVars, cfgVars,
                   flagWriter, received, callVars, running, pc, is_recording,
                   pollLeft, recVars, engVars, wrkVars, ppVars, outVars,
                   histVars, done, outcome>>

\* recv() in the select!: one of the three arms takes the first message
Recv ==
    \/ \E ok \in BOOLEAN : RecvPressedStart(ok)
    \/ RecvReleased
    \/ RecvIgnored

\* The queue followed through a burst of sends: typing only, no cleanup, a
\* stop() that succeeds and a transcription that fails, none of which
\* touches the channel; start() fails only before the first session, and
\* Ctrl+C comes while the sender is parked.
ChanInit == Init /\ mode = "Typing" /\ ~cleanup

ChanNext ==
    \/ Send
    \/ SendBlocks
    \/ SendResumes
    \/ (listener = "blocked" /\ Interrupt)
    \/ Tick
    \/ Timeout
    \/ RecvPressedStart(TRUE)
    \/ (done = 0 /\ RecvPressedStart(FALSE))
    \/ RecvReleased
    \/ RecvIgnored
    \/ DrainDone
    \/ StopLock
    \/ StopFinish("ok")
    \/ WorkerLock
    \/ WorkerRun([k |-> "err"])
    \/ JoinWorker
    \/ RemoveFile
    \/ UnloadLock
    \/ UnloadDone

\* The controller task and the worker run once started, and the clock
\* moves.  select! polls recv() in every iteration and picks among the
\* ready arms at random, so a waiting message is not passed over for ever;
\* a parked blocking_send is woken when a permit is released or the
\* receiver is dropped.
ChanFairness ==
    /\ WF_vars(Recv)
    /\ WF_vars(Timeout)
    /\ WF_vars(DrainDone \/ StopLock \/ StopFinish("ok") \/ JoinWorker
                  \/ RemoveFile \/ UnloadLock \/ UnloadDone)
    /\ WF_vars(WorkerLock \/ WorkerRun([k |-> "err"]))
    /\ WF_vars(Tick)
    /\ WF_vars(SendResumes)

ChanSpec == ChanInit /\ [][ChanNext]_vars /\ ChanFairness

\* ------------------------------------------------------ f64 arithmetic
\* A positive f64 is [m, e] with value m * 2^e and m of exactly F64Bits
\* bits, zero is m = 0; m is kept in two limbs <<high, low>> of 26 bits.
\* Division and multiplication round to nearest, ties to even, as the
\* hardware does; the numbers met here are far from overflow and underflow.
Limb == 2^26
BigZero == <<0, 0>>
BigTop == <<Limb, 0>>
BigDbl(a) == <<2 * a[1] + (2 * a[2]) \div Limb, (2 * a[2]) % Limb>>
BigHalf(a) == <<a[1] \div 2, (a[1] % 2) * (Limb \div 2) + a[2] \div 2>>
BigGeq(a, b) == a[1] > b[1] \/ (a[1] = b[1] /\ a[2] >= b[2])
BigSub(a, b) ==
    IF a[2] >= b[2] THEN <<a[1] - b[1], a[2] - b[2]>>
    ELSE <<a[1] - b[1] - 1, a[2] + Limb - b[2]>>
BigInc(a) == IF a[2] + 1 = Limb THEN <<a[1] + 1, 0>> ELSE <<a[1], a[2] + 1>>
BigMul(a, n) == <<a[1] * n + (a[2] * n) \div Limb, (a[2] * n) % Limb>>
BigShr(a, n) ==
    IF n >= 57 THEN BigZero
    ELSE IF n >= 26 THEN <<0, a[1] \div 2^(n - 26)>>
    ELSE <<a[1] \div 2^n, (a[1] % 2^n) * 2^(26 - n) + a[2] \div 2^n>>
BitLen(n) == CHOOSE j \in 1..26 : 2^(j - 1) <= n /\ n < 2^j

FloatZero == [m |-> BigZero, e |-> 0]

\* n as f64, exact for the u32 and usize values met here
FloatOf(n) ==
    IF n = 0 THEN FloatZero
    ELSE [m |-> <<n * 2^(27 - BitLen(n)), 0>>, e |-> BitLen(n) - F64Bits]

\* bring a product back to F64Bits bits: g is the last bit dropped, s tells
\* whether a bit dropped before it was set
RECURSIVE RoundBits(_, _, _, _)
RoundBits(m, e, g, s) ==
    IF BigGeq(m, BigDbl(BigTop))
    THEN RoundBits(BigHalf(m), e + 1, m[2] % 2, s \/ g = 1)
    ELSE LET up == g = 1 /\ (s \/ m[2] % 2 = 1)
             r == IF up THEN BigInc(m) ELSE m
         IN  IF BigGeq(r, BigDbl(BigTop)) THEN [m |-> BigHalf(r), e |-> e + 1]
             ELSE [m |-> r, e |-> e]

\* n further quotient bits of st[2] / d by shift and subtract; st is
\* <<quotient so far, remainder doubled>>
RECURSIVE DivBits(_, _, _)
DivBits(st, d, n) ==
    IF n = 0 THEN st
    ELSE IF BigGeq(st[2], d)
         THEN DivBits(<<BigInc(BigDbl(st[1])), BigDbl(BigSub(st[2], d))>>,
                      d, n - 1)
         ELSE DivBits(<<BigDbl(st[1]), BigDbl(st[2])>>, d, n - 1)

\* x / y in f64
FloatDiv(x, y) ==
    IF x.m = BigZero THEN FloatZero
    ELSE LET n == IF BigGeq(x.m, y.m) THEN F64Bits ELSE F64Bits + 1
             d == DivBits(<<BigZero, x.m>>, y.m, n)
             up == /\ BigGeq(d[2], y.m)
                   /\ (BigSub(d[2], y.m) # BigZero \/ d[1][2] % 2 = 1)
             q == IF up THEN BigInc(d[1]) ELSE d[1]
             e == x.e - y.e - (n - 1)
         IN  IF BigGeq(q, BigDbl(BigTop)) THEN [m |-> BigHalf(q), e |-> e + 1]
             ELSE [m |-> q, e |-> e]

\* i as f64 * y in f64, for i < 16 (i as f64 is exact)
FloatMulInt(i, y) ==
    IF i = 0 \/ y.m = BigZero THEN FloatZero
    ELSE RoundBits(BigMul(y.m, i), y.e, 0, FALSE)

\* x as usize: the fraction is cut off
FloatTrunc(x) ==
    LET t == IF x.e >= 0 THEN x.m ELSE BigShr(x.m, 0 - x.e)
    IN  t[1] * Limb + t[2]

\* ------------------------------------------------------ f32 samples
\* A sample is [k, m, e]: a number m * 2^e with |m| of exactly F32Bits bits
\* (zero is m = 0), an infinity, a NaN, a value interpolated between input
\* m and its successor with a weight on both, or the panic of an index out
\* of bounds.  The sign of zero is not followed.
F32Zero == [k |-> "num", m |-> 0, e |-> 0]
F32NaN == [k |-> "nan", m |-> 0, e |-> 0]
F32Inf == [k |-> "inf", m |-> 1, e |-> 0]
Panic == [k |-> "panic", m |-> 0, e |-> 0]

Abs(n) == IF n < 0 THEN 0 - n ELSE n

\* s as f32 / c as f32 for small integers s and c > 0: the quotient rounded
\* to F32Bits bits, ties to even
F32Quot(s, c) ==
    IF s = 0 THEN F32Zero
    ELSE LET a == Abs(s)
             top == 2^(F32Bits - 1)
             sh == CHOOSE j \in 0..26 :
                      top <= (a * 2^j) \div c /\ (a * 2^j) \div c < 2 * top
             q == (a * 2^sh) \div c
             r == (a * 2^sh) % c
             up == 2 * r > c \/ (2 * r = c /\ q % 2 = 1)
             q1 == IF up THEN q + 1 ELSE q
             mm == IF q1 = 2 * top THEN top ELSE q1
             ee == IF q1 = 2 * top THEN 1 - sh ELSE 0 - sh
         IN  [k |-> "num", m |-> IF s < 0 THEN 0 - mm ELSE mm, e |-> ee]

\* the f32 that holds the small integer n
F32Of(n) == F32Quot(n, 1)

\* the integer an integral f32 holds
IntOf(x) == IF x.m < 0 THEN 0 - (Abs(x.m) \div 2^(0 - x.e))
            ELSE x.m \div 2^(0 - x.e)

\* ---------------------------------------------------------- write_samples
\* chunk.iter().sum::<f32>(): the chunks hold small integers, whose partial
\* sums are exact in f32
RECURSIVE SumF32(_)
SumF32(chunk) ==
    IF chunk = <<>> THEN 0 ELSE IntOf(Head(chunk)) + SumF32(Tail(chunk))

\* a plausible slip: the channels are summed and not averaged
DownmixSum(chunk, c) == F32Quot(SumF32(chunk), 1)

\* let mono: f32 = chunk.iter().sum::<f32>() / channels as f32
Downmix(chunk, c) == F32Quot(SumF32(chunk), c)

\* data.chunks(channels): consecutive pieces of c samples, the last one
\* shorter when the length is no multiple of c
Chunks(d, c) ==
    [f \in 1..((Len(d) + c - 1) \div c) |->
        SubSeq(d, (f - 1) * c + 1,
               IF f * c < Len(d) THEN f * c ELSE Len(d))]

\* the buffer after write_samples(&samples, data, channels)
WriteSamples(b, d, c) ==
    IF c = 1 THEN b \o d
    ELSE b \o [f \in 1..Len(Chunks(d, c)) |-> Downmix(Chunks(d, c)[f], c)]

\* --------------------------------------------------------------- resample
\* samples[idx]: an index past the end panics
At(s, idx) == IF idx < Len(s) THEN s[idx + 1] ELSE Panic

\* samples[idx] * (1.0 - frac as f32) + samples[idx + 1] * frac as f32.
\* With frac = 0 the first product is samples[idx] and the second is zero,
\* or NaN when samples[idx + 1] is no number.
Lerp(a, b, whole, idx) ==
    IF a = Panic \/ b = Panic THEN Panic
    ELSE IF ~whole THEN [k |-> "mix", m |-> idx, e |-> 0]
    ELSE IF a.k = "nan" \/ b.k # "num" THEN F32NaN
    ELSE a

\* a plausible slip: the bound of the window is tested on idx
HasNextLoose(idx, len) == idx < len

\* if idx + 1 < samples.len()
HasNext(idx, len) == idx + 1 < len

\* let ratio = from_rate as f64 / to_rate as f64
Ratio(from, to) == FloatDiv(FloatOf(from), FloatOf(to))

\* a plausible slip: the length is rounded up past the quotient
OutputLenUp(n, ratio) == FloatTrunc(FloatDiv(FloatOf(n), ratio)) + 1

\* let output_len = (samples.len() as f64 / ratio) as usize
OutputLen(n, ratio) == FloatTrunc(FloatDiv(FloatOf(n), ratio))

\* let src_idx = i as f64 * ratio
SrcIdx(i, ratio) == FloatMulInt(i, ratio)

\* the loop body for output index i, counted from 0
Sample(s, i, ratio) ==
    LET src_idx == SrcIdx(i, ratio)
        idx == FloatTrunc(src_idx)
    IN  IF HasNext(idx, Len(s))
        THEN Lerp(At(s, idx), At(s, idx + 1), src_idx = FloatOf(idx), idx)
        ELSE IF idx < Len(s) THEN At(s, idx)
        ELSE F32Zero

Resample(s, from, to) ==
    LET ratio == Ratio(from, to)
    IN  [i \in 1..OutputLen(Len(s), ratio) |-> Sample(s, i - 1, ratio)]

\* a plausible slip: stop() resamples whatever the rates are
ResampledAlways(s, input_rate, output_rate) ==
    Resample(s, input_rate, output_rate)

\* stop(): resample(&samples, input, output) if the rates differ, else
\* samples.clone()
Resampled(s, input_rate, output_rate) ==
    IF input_rate # output_rate THEN Resample(s, input_rate, output_rate)
    ELSE s

\* the lengths the functions are followed over
Rates == {1, 2, 3, 7, 9, TARGET_OUTPUT_SAMPLE_RATE, DEFAULT_INPUT_SAMPLE_RATE}
Ramp(n) == [i \in 1..n |-> F32Of(i)]
Inputs ==
    UNION {{Ramp(n)} \cup {[Ramp(n) EXCEPT ![j] = F32Inf] : j \in 1..n} :
           n \in 0..MaxInput}

\* resample(samples, from_rate, to_rate) called directly
CallResample ==
    /\ via = "none"
    /\ Len(input) * to_rate <= MaxOut * from_rate
    /\ output' = Resample(input, from_rate, to_rate)
    /\ via' = "resample"
    /\ UNCHANGED <<input, from_rate, to_rate, data, channels, mixed,
                   encVars, ctrlVars>>

\* stop() up to `resampled`, with from_rate as the device's rate
CallStop ==
    /\ via = "none"
    /\ Len(input) * TARGET_OUTPUT_SAMPLE_RATE <= MaxOut * from_rate
    /\ output' = Resampled(input, from_rate, TARGET_OUTPUT_SAMPLE_RATE)
    /\ via' = "stop"
    /\ UNCHANGED <<input, from_rate, to_rate, data, channels, mixed,
                   encVars, ctrlVars>>

ResampleInit ==
    /\ CtrlInit /\ mode = "Typing" /\ ~cleanup
    /\ input \in Inputs
    /\ from_rate \in Rates
    /\ to_rate \in Rates
    /\ output = <<>>
    /\ via = "none"
    /\ data = <<>>
    /\ channels = 1
    /\ mixed = <<>>
    /\ EncIdle

ResampleNext == CallResample \/ CallStop

ResampleSpec == ResampleInit /\ [][ResampleNext]_vars

\* the capture callback hands over whole frames of small integer samples
SampleInts == {-1, 0, 1, 3}
Frames ==
    UNION {[1..n -> {F32Of(v) : v \in SampleInts}] : n \in 0..MaxChunk}

\* write_samples(&samples, data, channels) under the buffer's lock
CallWriteSamples ==
    /\ via = "none"
    /\ mixed' = WriteSamples(mixed, data, channels)
    /\ via' = "write"
    /\ UNCHANGED <<input, from_rate, to_rate, output, data, channels,
                   encVars, ctrlVars>>

MixInit ==
    /\ CtrlInit /\ mode = "Typing" /\ ~cleanup
    /\ input = <<>>
    /\ from_rate = DEFAULT_INPUT_SAMPLE_RATE
    /\ to_rate = TARGET_OUTPUT_SAMPLE_RATE
    /\ output = <<>>
    /\ via = "none"
    /\ channels \in 1..MaxChannels
    /\ data \in {d \in Frames : Len(d) % channels = 0}
    /\ mixed \in {<<>>, <<F32Of(3)>>, <<F32Of(1), F32Quot(1, 3)>>}
    /\ EncIdle

MixNext == CallWriteSamples

MixSpec == MixInit /\ [][MixNext]_vars

\* ------------------------------------------------------ sample encodings
\* A device integer is [neg, mag]: its sign and its magnitude in two limbs,
\* which holds every i16 and every i32.
IntS(n) == [neg |-> n < 0, mag |-> <<0, Abs(n)>>]
I16_MAX == IntS(2^15 - 1)
I16_MIN == IntS(0 - 2^15)
I32_MAX == [neg |-> FALSE, mag |-> <<2^5 - 1, Limb - 1>>]
I32_MIN == [neg |-> TRUE, mag |-> <<2^5, 0>>]

\* the number of bits of a magnitude above zero
BigBits(a) == IF a[1] > 0 THEN 26 + BitLen(a[1]) ELSE BitLen(a[2])

\* s as f32: exact up to F32Bits bits, else the nearest f32, ties to even
IntAsF32(s) ==
    IF s.mag = BigZero THEN F32Zero
    ELSE LET len == BigBits(s.mag)
             sh == len - F32Bits
             q == BigShr(s.mag, sh)[2]
             r == s.mag[2] % 2^sh
             half == 2^(sh - 1)
             up == r > half \/ (r = half /\ q % 2 = 1)
             q1 == IF up THEN q + 1 ELSE q
             top == 2^(F32Bits - 1)
             mm == IF sh <= 0 THEN s.mag[2] * 2^(0 - sh)
                   ELSE IF q1 = 2 * top THEN top ELSE q1
             ee == IF sh > 0 /\ q1 = 2 * top THEN sh + 1 ELSE sh
         IN  [k |-> "num", m |-> IF s.neg THEN 0 - mm ELSE mm, e |-> ee]

\* x / y in f32 for numbers x and y, y not zero: the quotient of the two
\* significands by shift and subtract, rounded to F32Bits bits, ties to even
F32Div(x, y) ==
    IF x.m = 0 THEN F32Zero
    ELSE LET a == <<0, Abs(x.m)>>
             b == <<0, Abs(y.m)>>
             n == IF BigGeq(a, b) THEN F32Bits ELSE F32Bits + 1
             d == DivBits(<<BigZero, a>>, b, n)
             up == /\ BigGeq(d[2], b)
                   /\ (BigSub(d[2], b) # BigZero \/ d[1][2] % 2 = 1)
             q == IF up THEN d[1][2] + 1 ELSE d[1][2]
             top == 2^(F32Bits - 1)
             mm == IF q = 2 * top THEN top ELSE q
             ee == x.e - y.e - (n - 1) + (IF q = 2 * top THEN 1 ELSE 0)
         IN  [k |-> "num",
              m |-> IF (x.m < 0) # (y.m < 0) THEN 0 - mm ELSE mm,
              e |-> ee]

\* s as f32 / i16::MAX as f32, s as f32 / i32::MAX as f32
Norm(s, max) == F32Div(IntAsF32(s), IntAsF32(max))

\* data.iter().map(|&s| ...).collect()
FloatData(d, max) == [j \in 1..Len(d) |-> Norm(d[j], max)]

\* the values the device delivers in each encoding
DeviceInts(fmt) ==
    IF fmt = "I16"
    THEN {I16_MIN, [I16_MAX EXCEPT !.neg = TRUE], IntS(-1), IntS(0), I16_MAX}
    ELSE {I32_MIN, [I32_MAX EXCEPT !.neg = TRUE], IntS(0), IntS(1),
          IntS(2^F32Bits + 3), I32_MAX}
DeviceData(fmt) ==
    UNION {[1..n -> DeviceInts(fmt)] : n \in 0..MaxChunk}

\* the I16 callback: the chunk is converted and handed to write_samples
CallbackI16 ==
    /\ via = "none"
    /\ sample_format = "I16"
    /\ float_data' = FloatData(device_data, I16_MAX)
    /\ mixed' = WriteSamples(mixed, float_data', channels)
    /\ via' = "callback"
    /\ UNCHANGED <<input, from_rate, to_rate, output, data, channels,
                   sample_format, device_data, ctrlVars>>

\* the I32 callback
CallbackI32 ==
    /\ via = "none"
    /\ sample_format = "I32"
    /\ float_data' = FloatData(device_data, I32_MAX)
    /\ mixed' = WriteSamples(mixed, float_data', channels)
    /\ via' = "callback"
    /\ UNCHANGED <<input, from_rate, to_rate, output, data, channels,
                   sample_format, device_data, ctrlVars>>

\* a mono device of an integer encoding is about to deliver one chunk
EncInit ==
    /\ CtrlInit /\ mode = "Typing" /\ ~cleanup
    /\ input = <<>>
    /\ from_rate = DEFAULT_INPUT_SAMPLE_RATE
    /\ to_rate = TARGET_OUTPUT_SAMPLE_RATE
    /\ output = <<>>
    /\ via = "none"
    /\ data = <<>>
    /\ channels = 1
    /\ mixed \in {<<>>, <<F32Of(1)>>}
    /\ sample_format \in {"I16", "I32"}
    /\ device_data \in DeviceData(sample_format)
    /\ float_data = <<>>

EncNext == CallbackI16 \/ CallbackI32

EncSpec == EncInit /\ [][EncNext]_vars

\* ================================================================ claims

\* C1: recorder.start() is never invoked while a capture stream is already
\* active: at every invocation the recorder holds no stream, so every
\* successful start() is separated from the previous one by a stop().
C1_StartOnlyWithoutStream == streamAtStart # "Some"

C1_Witness == streamAtStart = "None" /\ stream = "Some" /\ done >= 1

\* C2 as stated: a Pressed emitted while the controller is not Idle never
\* causes start(), not even later when it is taken from the queue; so every
\* start() is caused by an event that was emitted while Idle.
C2_Original == lastStart.at \in {"never", "Idle"}

\* C2 amended: a Pressed taken from the queue while the controller is not
\* Idle never causes start(): every start() handles an event that is taken
\* while Idle, whenever it was emitted.
C2_StartOnlyTakenWhileIdle == lastStart.taken \in {"never", "Idle"}

C2_Witness ==
    lastStart.at = "Draining" /\ lastStart.taken = "Idle" /\ is_recording

C4_EngineSerialized ==
    /\ ~(wpc = "run" /\ pc = "unloading")
    /\ wpc = "run" => engineOwner = "worker"
    /\ pc = "unloading" => engineOwner = "ctrl"

C4_Witness == wpc = "run" /\ engineOwner = "worker" /\ ~running

\* C5: the loop is left only through the shutdown flag or the closed
\* channel, and every end of a pipeline, whatever failed in it, puts the
\* controller back at the poll with is_recording false and no stream.
C5_FailureConfined ==
    /\ [](pc \in ExitPcs => exitCause \in {"shutdown", "closed"})
    /\ [][(InFlight /\ ~InFlight') =>
            (pc' = "poll" /\ ~is_recording' /\ stream' = "None")]_vars

C5_Witness == poisoned /\ done >= 1 /\ is_recording /\ stream = "Some"

\* C6: once the engine has returned an empty or whitespace-only transcript,
\* the session makes no cleanup request and no output call, no sink has
\* acted, and it ends as no-speech, which is not a failure.
C6_NoSpeechSkipsCleanupAndOutput ==
    (wres.k = "ok" /\ pc # "transcribe" /\ IsBlank(wres.text)) =>
        /\ pc = "remove"
        /\ nPP = 0
        /\ nOut = 0
        /\ typed = NoText
        /\ clipped = NoText
        /\ outcome = "nospeech"
        /\ outcome \notin Failures

C6_Witness ==
    /\ pc = "remove"
    /\ wres.k = "ok"
    /\ wres.text = <<" ">>
    /\ cleanup
    /\ outcome = "nospeech"
    /\ nPP = 0
    /\ nOut = 0

\* C7: when process returns Err it has made 3 attempts and the error is
\* the third attempt's; the caller then calls output_text exactly once with
\* the trimmed transcript.
C7_CleanupExhausted ==
    /\ (pc = "processed" /\ ppRes.k = "err") =>
           (attempt = MaxAttempts /\ ppRes.err = attemptErr)
    /\ (pc \in {"output", "remove"} /\ outcome = "cleanupErr") =>
           (nOut = 1 /\ outArg = text /\ text = Trim(wres.text))

C7_Witness ==
    /\ pc = "remove"
    /\ outcome = "cleanupErr"
    /\ outRes = "ok"
    /\ nOut = 1
    /\ wres.text = <<" ", "a">>
    /\ outArg = <<"a">>
    /\ typed = <<"a">>

\* C8 as stated: no artifact file outlives its session: whenever no
\* pipeline is in flight, no artifact file exists.
C8_ArtifactsDeleted == ~InFlight => files = 0

\* C9: in Both mode output_text starts both sinks, returns only after both
\* have finished, and when typing fails and the clipboard succeeds the text
\* is on the clipboard and the error returned is the typing failure.
C9_BothSinksRun ==
    mode = "Both" =>
        /\ pc = "output" => (typeSt # "off" /\ clipSt # "off")
        /\ outRes # "none" =>
              /\ typeSt \in SinkDone
              /\ clipSt \in SinkDone
              /\ (typeSt = "err" /\ clipSt = "ok") =>
                     (clipped = outArg /\ outRes = "TypeErr")

C9_Witness ==
    /\ mode = "Both"
    /\ pc = "remove"
    /\ typeSt = "err"
    /\ clipSt = "ok"
    /\ clipped = outArg
    /\ outRes = "TypeErr"

\* C10: the controller never stays Idle with an empty queue and the flag
\* set for more than one poll interval: by then the timeout arm has seen the
\* flag and left the loop.
C10_ShutdownWithinPollInterval == idleQuiet <= PollTicks

C10_Witness ==
    pc = "unload" /\ exitCause = "shutdown" /\ idleQuiet = PollTicks

\* C11 as stated: whatever the controller is doing and whatever events
\* arrive, once the shutdown flag is set the poll loop is eventually left,
\* and a run_event_loop that has returned has called unload_model exactly
\* once.
C11_ShutdownExits ==
    /\ (~running) ~> (pc \in ExitPcs)
    /\ [](pc = "exited" => unloaded = 1)

\* C12: once recv has yielded None the loop is over and stays over; after
\* the loop nothing starts or stops a recording; a run_event_loop that has
\* returned has unloaded the engine; and the loop is left only from the
\* poll, on the closed and drained channel or on the shutdown flag, never
\* on what a session does.
C12_ClosedChannelEndsLoop ==
    /\ [](exitCause = "closed" => pc \in ExitPcs)
    /\ [](pc = "exited" => unloaded = 1)
    /\ [][(pc \in ExitPcs) =>
            /\ pc' \in ExitPcs
            /\ is_recording' = is_recording
            /\ stream' = stream
            /\ streamAtStart' = streamAtStart]_vars
    /\ [][(pc \notin ExitPcs /\ pc' \in ExitPcs) =>
            /\ pc = "poll"
            /\ (chan = <<>> /\ listener = "gone") \/ ~running]_vars

C12_Witness ==
    /\ exitCause = "closed"
    /\ pc = "exited"
    /\ unloaded = 1
    /\ is_recording
    /\ done >= 1

\* C13: every session ends: once a Released has been taken while Recording
\* (the trailing delay has begun), the controller is eventually back at the
\* poll with is_recording false, whatever stop, transcription, cleanup and
\* the sinks return.
C13_SessionEnds ==
    (pc = "drain" \/ InFlight) ~> (pc = "poll" /\ ~is_recording)

C13_Witness ==
    /\ pc = "poll"
    /\ ~is_recording
    /\ done >= 1
    /\ chan # <<>>
    /\ poisoned


\* C14: taking a Pressed while is_recording is true, or a Released while
\* it is false, changes nothing but the queue: is_recording, the stream,
\* the buffer and its lock are as before, the loop stays at the poll, and
\* no call to the recorder, the engine, the cleanup service or a sink has
\* been made.
C14_IgnoredEventsAreNoOps ==
    [][(/\ pc = "poll"
        /\ chan # <<>>
        /\ chan' = Tail(chan)
        /\ \/ Head(chan).kind = "Pressed" /\ is_recording
           \/ Head(chan).kind = "Released" /\ ~is_recording)
       => /\ pc' = "poll"
          /\ is_recording' = is_recording
          /\ recVars' = recVars
          /\ audVars' = audVars
          /\ <<streamAtStart, lastStart>>' = <<streamAtStart, lastStart>>
          /\ engVars' = engVars
          /\ wrkVars' = wrkVars
          /\ ppVars' = ppVars
          /\ sent' = sent
          /\ outVars' = outVars
          /\ <<done, outcome>>' = <<done, outcome>>]_vars

C14_Witness ==
    /\ ignored = "Pressed"
    /\ pc = "poll"
    /\ is_recording
    /\ stream = "Some"
    /\ samples # <<>>
    /\ done >= 1

\* C15: process sends at most 3 requests and none once one has succeeded;
\* no wait precedes the first request and exactly one wait precedes each
\* later one, so a success after k failures has made k+1 requests and k
\* waits (k < 3), and what it returns is the response without the white
\* space at its ends; after three failures there were 3 requests, 2 waits.
C15_RetrySchedule ==
    /\ sent <= MaxAttempts
    /\ pc \notin {"process", "processed"} => sent = 0
    /\ pc = "process" =>
          /\ sent = attempt
          /\ sent < MaxAttempts
          /\ waits = IF waited THEN sent ELSE IF sent = 0 THEN 0 ELSE sent - 1
    /\ (pc = "processed" /\ ppRes.k = "ok") =>
          /\ attempt < MaxAttempts
          /\ sent = attempt + 1
          /\ waits = attempt
          /\ IsTrimOf(ppRes.text, ppRes.raw)
    /\ (pc = "processed" /\ ppRes.k = "err") =>
          /\ sent = MaxAttempts
          /\ waits = MaxAttempts - 1

C15_Witness ==
    /\ pc = "processed"
    /\ ppRes.k = "ok"
    /\ attempt = 2
    /\ sent = 3
    /\ waits = 2
    /\ ppRes.raw = <<" ", "a">>
    /\ ppRes.text = <<"a">>

\* C16: with the shutdown flag set, a pipeline in flight goes on step by
\* step: it is left only at its own end, from the artifact's removal (one
\* file fewer) or from a failed stop(); and the loop is left for
\* unload_model only from the poll, so unload_model runs only when no
\* pipeline is in flight and the worker has finished.
C16_PipelineSurvivesShutdown ==
    /\ [][(~running /\ InFlight) =>
            \/ pc' \in PipelinePcs
            \/ pc = "remove" /\ pc' = "poll" /\ files' = files - 1
            \/ pc = "write" /\ pc' = "poll"]_vars
    /\ [](pc \in ExitPcs => (wpc = "none" /\ engineOwner # "worker"))

C16_Witness ==
    /\ ~running
    /\ pc = "remove"
    /\ cleanup
    /\ nPP = 1
    /\ outcome = "ok"
    /\ typed = outArg
    /\ files = 1

\* C17 as stated: in Both mode, when both sinks have failed, output_text
\* returns the error of the sink that failed first.
C17_Original ==
    (mode = "Both" /\ outRes # "none" /\ typeSt = "err" /\ clipSt = "err") =>
        outRes = IF firstErr = "type" THEN "TypeErr" ELSE "ClipErr"

\* C17 amended: in Both mode, when both sinks have failed, output_text
\* returns the typing error, whichever of the two failed first.
C17_TypingErrorSurfaced ==
    (mode = "Both" /\ outRes # "none" /\ typeSt = "err" /\ clipSt = "err") =>
        (outRes = "TypeErr" /\ firstErr \in {"type", "clip"})

C17_Witness ==
    /\ mode = "Both"
    /\ pc = "remove"
    /\ typeSt = "err"
    /\ clipSt = "err"
    /\ firstErr = "clip"
    /\ outRes = "TypeErr"

C21_StartFailureAbortsSession ==
    /\ [][(/\ pc = "poll"
            /\ chan # <<>>
            /\ Head(chan).kind = "Pressed"
            /\ ~is_recording
            /\ chan' = Tail(chan)
            /\ stream' # "Some")
           => /\ ~is_recording'
              /\ stream' = "None"
              /\ pc' = "poll"
              /\ <<files, snapshot, wrkVars, engVars, done>>'
                    = <<files, snapshot, wrkVars, engVars, done>>]_vars
    /\ [][(/\ pc = "poll"
            /\ chan # <<>>
            /\ Head(chan).kind = "Released"
            /\ ~is_recording
            /\ chan' = Tail(chan))
           => /\ pc' = "poll"
              /\ ~is_recording'
              /\ <<stream, files, snapshot, bufLock, wrkVars, engVars, done>>'
                    = <<stream, files, snapshot, bufLock, wrkVars, engVars, done>>]_vars
    /\ []((/\ pc = "poll"
            /\ ~is_recording
            /\ chan # <<>>
            /\ Head(chan).kind = "Pressed")
           => ENABLED RecvPressedStart(TRUE))

\* a start() has failed after a session that captured audio (the buffer is
\* empty again although nothing records) and the Released that followed
\* was ignored
C21_Witness ==
    /\ pc = "poll"
    /\ ~is_recording
    /\ stream = "None"
    /\ samples = <<>>
    /\ snapshot # <<>>
    /\ ignored = "Released"
    /\ done = 1

\* C22: within one session stop(), transcribe_file, output_text, type_text
\* and copy_to_clipboard are each called at most once, whatever they
\* return; only the cleanup request is sent more than once.
C22_OnlyCleanupRepeats ==
    /\ nStop <= 1
    /\ nTrans <= 1
    /\ nOut <= 1
    /\ nType <= 1
    /\ nClip <= 1
    /\ nPP <= 1

\* stop() ran once, transcription once, process was called once and left
\* the transcript as it was, and both sinks ran once and failed
C22_Witness ==
    /\ pc = "remove"
    /\ mode = "Both"
    /\ nStop = 1
    /\ nTrans = 1
    /\ nPP = 1
    /\ final_text = text
    /\ cleanup
    /\ nType = 1
    /\ nClip = 1
    /\ typeSt = "err"
    /\ clipSt = "err"

\* C23 as the spec states it: the shutdown flag has a single writer, the
\* Ctrl+C handler; the hotkey listener thread never writes it.
C23_Original == flagWriter \in {"none", "ctrlc"}

\* C23 (amended): the shutdown flag has two writers, the Ctrl+C handler and
\* the macOS listener thread when listen() returns an error.  Both store
\* false, so the flag is true exactly until the first store and never
\* becomes true again; the controller loop and the pipeline never write it:
\* a step that stores to the flag leaves the controller, the recorder, the
\* engine and the sinks as they are, and a store by the listener is the step
\* in which the listener ends.
C23_FlagWriters ==
    /\ [](flagWriter \in FlagWriters /\ (running <=> flagWriter = "none"))
    /\ [][(running' # running \/ flagWriter' # flagWriter) =>
            /\ ~running'
            /\ flagWriter' \in {"ctrlc", "listener"}
            /\ flagWriter' = "listener" =>
                   (listener = "run" /\ listener' = "gone")
            /\ flagWriter' = "ctrlc" => listener' = listener
            /\ <<pc, is_recording, pollLeft, recVars, engVars, wrkVars,
                 ppVars, outVars, chan>>' =
               <<pc, is_recording, pollLeft, recVars, engVars, wrkVars,
                 ppVars, outVars, chan>>]_vars

\* the listener failed while a recording was on and stored false; the
\* Ctrl+C handler has not run
C23_Witness ==
    /\ flagWriter = "listener"
    /\ ~running
    /\ listener = "gone"
    /\ is_recording
    /\ pc = "poll"

\* C24: while the receiver is alive the queue holds at most 32 events,
\* they are exactly the sends not yet taken, in the order sent; the
\* controller takes the sends one by one in the order 1, 2, 3, ...; a send
\* that finds the queue full parks and changes nothing, and every send
\* that completes while the receiver is alive is queued at the tail; a
\* parked sender always gets to run again.
C24_EventsInOrder ==
    /\ [](ReceiverAlive =>
            /\ Len(chan) <= ChannelCap
            /\ received + Len(chan) = emitted
            /\ \A i \in 1..Len(chan) : chan[i].seq = received + i)
    /\ [][(received' # received \/ Len(chan') < Len(chan)) =>
            /\ chan # <<>>
            /\ Head(chan).seq = received + 1
            /\ received' = received + 1
            /\ chan' = Tail(chan)]_vars
    /\ [][(listener = "run" /\ listener' = "blocked") =>
            (Len(chan) = ChannelCap /\ chan' = chan /\ emitted' = emitted)]_vars
    /\ [][(emitted' # emitted /\ ReceiverAlive) =>
            /\ emitted' = emitted + 1
            /\ Len(chan) < ChannelCap
            /\ Len(chan') = Len(chan) + 1
            /\ chan'[Len(chan')].seq = emitted'
            /\ \A i \in 1..Len(chan) : chan'[i] = chan[i]]_vars
    /\ (listener = "blocked") ~> (listener = "run")

\* the queue is full again behind a send that had to wait: its last event
\* was queued after the controller had come back from the pipeline to an
\* already filled queue
C24_Witness ==
    /\ Len(chan) = ChannelCap
    /\ chan[ChannelCap].at # "Processing"
    /\ chan[1].at = "Processing"
    /\ received > 2
    /\ listener = "run"
    /\ ReceiverAlive

\* resample has run: called directly, or by stop() with a device rate that
\* differs from the target rate; RanTo is the to_rate it ran with
Ran ==
    \/ via = "resample"
    \/ via = "stop" /\ from_rate # TARGET_OUTPUT_SAMPLE_RATE

RanTo == IF via = "stop" THEN TARGET_OUTPUT_SAMPLE_RATE ELSE to_rate

\* C25: resample returns exactly floor(N * to_rate / from_rate) samples for
\* every input length N and every pair of positive rates.
C25_ResampleLength ==
    Ran => Len(output) = (Len(input) * RanTo) \div from_rate

\* C26: an output sample whose source index idx is the last input index is
\* the final input sample; one whose source index is past the input end is
\* 0.0; every other one is computed from samples idx and idx + 1, both in
\* range; no output sample comes from an index out of range.
C26_ResampleBoundary ==
    Ran =>
      \A i \in 1..Len(output) :
         LET idx == FloatTrunc(SrcIdx(i - 1, Ratio(from_rate, RanTo)))
         IN  /\ output[i] # Panic
             /\ idx = Len(input) - 1 => output[i] = input[Len(input)]
             /\ idx >= Len(input) => output[i] = F32Zero
             /\ idx < Len(input) - 1 =>
                    \/ output[i] = [k |-> "mix", m |-> idx, e |-> 0]
                    \/ output[i] = input[idx + 1]
                    \/ output[i] = F32NaN

\* two samples resampled to twice the rate: the third output falls on the
\* last input index, the fourth has its window past the end, and both are
\* the final input sample
C26_Witness ==
    /\ via = "resample"
    /\ Len(input) = 2
    /\ from_rate = 1
    /\ to_rate = 2
    /\ Len(output) = 4
    /\ output[2] = [k |-> "mix", m |-> 0, e |-> 0]
    /\ output[3] = input[2]
    /\ output[4] = input[2]

\* C27 as stated: with equal rates the result is the input, through stop()
\* and through resample called directly.
C27_Original ==
    (via \in {"resample", "stop"} /\ from_rate = RanTo) => output = input

\* C27 (amended): with equal rates stop() returns the buffer as it is,
\* whatever it holds.  resample called with equal rates returns as many
\* samples as it was given, and each sample as it was given, except that
\* a sample followed by one that is no number (an infinity or a NaN) comes
\* back as NaN.
C27_EqualRates ==
    /\ (via = "stop" /\ from_rate = TARGET_OUTPUT_SAMPLE_RATE) =>
          output = input
    /\ (via = "resample" /\ from_rate = to_rate) =>
          /\ Len(output) = Len(input)
          /\ \A i \in 1..Len(input) :
                output[i] = IF i < Len(input) /\ input[i + 1].k # "num"
                            THEN F32NaN ELSE input[i]

\* resample with equal rates on three samples, the last an infinity: the
\* first comes back, the second is NaN
C27_Witness ==
    /\ via = "resample"
    /\ from_rate = to_rate
    /\ Len(input) = 3
    /\ input[3] = F32Inf
    /\ output = <<input[1], F32NaN, F32Inf>>

\* x is the f32 nearest to s / c
IsMean(x, s, c) ==
    /\ x.k = "num"
    /\ s = 0 => x = F32Zero
    /\ s # 0 =>
          /\ (x.m < 0) <=> (s < 0)
          /\ 2^(F32Bits - 1) <= Abs(x.m) /\ Abs(x.m) < 2^F32Bits
          /\ 2 * Abs(c * Abs(x.m) - Abs(s) * 2^(0 - x.e)) <= c

\* C28: write_samples with F whole frames of C >= 2 channels appends F
\* samples, the f-th the mean of frame f as f32 holds it; with one channel
\* it appends the chunk as it is; what the buffer held stays as it was.
\* [1, 3, 0, 0] with 2 channels appends [2, 0].
C28_Downmix ==
    [][(via = "none" /\ via' = "write") =>
          LET F == Len(data) \div channels
              old == Len(mixed)
          IN  /\ SubSeq(mixed', 1, old) = mixed
              /\ channels = 1 => mixed' = mixed \o data
              /\ channels >= 2 =>
                    /\ Len(mixed') = old + F
                    /\ \A f \in 1..F :
                          IsMean(mixed'[old + f],
                                 SumF32(SubSeq(data, (f - 1) * channels + 1,
                                               f * channels)),
                                 channels)
              /\ (channels = 2 /\ data = <<F32Of(1), F32Of(3), F32Zero,
                                            F32Zero>>) =>
                    mixed' = mixed \o <<F32Of(2), F32Zero>>]_vars

\* the buffer held 3; the chunk [1, 3, 0, 0] of two channels has been
\* appended as [2, 0]
C28_Witness ==
    /\ via = "write"
    /\ channels = 2
    /\ data = <<F32Of(1), F32Of(3), F32Zero, F32Zero>>
    /\ mixed = <<F32Of(3), F32Of(2), F32Zero>>

\* C29: whenever the controller is at the top of its loop, is_recording is
\* true exactly when the recorder holds a stream, whatever start() and
\* stop() have returned.
C29_FlagMatchesStream == pc = "poll" => (is_recording <=> stream = "Some")

\* a recording is on again after a session whose stop() failed and left
\* its file behind
C29_Witness ==
    /\ pc = "poll"
    /\ is_recording
    /\ stream = "Some"
    /\ files = 1
    /\ done = 1

\* C30: the text handed to output_text is never empty and never made of
\* whitespace only, with cleanup off, failing or succeeding, whatever the
\* cleanup service answers.
C30_OutputNeverBlank == pc = "output" => ~IsBlank(outArg)

\* C31: after a transcription task failure (the worker panicked inside
\* transcribe_file while holding the engine mutex) the engine handle stays
\* usable: a later worker that reaches engine.lock() acquires the mutex and
\* goes on to transcribe, and the loop-exit path acquires it and goes on to
\* unload_model.
C31_EngineStaysUsable ==
    [][/\ (poisoned /\ wpc = "lock" /\ wpc' # "lock")
          => (wpc' = "run" /\ engineOwner' = "worker")
       /\ (poisoned /\ pc = "unload" /\ pc' # "unload")
          => (pc' = "unloading" /\ engineOwner' = "ctrl")]_vars

\* x lies in [-1, 1]: a number of magnitude below 1, or 1 itself
InUnit(x) ==
    /\ x.k = "num"
    /\ \/ x.m = 0
       \/ x.e < 1 - F32Bits
       \/ x.e = 1 - F32Bits /\ Abs(x.m) = 2^(F32Bits - 1)

\* C32: every sample the I16 and the I32 callback make of a device value,
\* s / 32767 and s / (2^31 - 1) as they are computed, lies in [-1, 1], the
\* minimum values -32768 and -2^31 included.
C32_NormalizedInUnit ==
    \A j \in 1..Len(float_data) : InUnit(float_data[j])

\* C33: in resample every output index i < output_len has its source index,
\* as the code computes it ((i as f64 * ratio) as usize) and as the exact
\* floor(i * from_rate / to_rate), below the input length N, so the silence
\* branch is never taken and every output sample comes from input samples.
C33_SourceIndexInRange ==
    Ran =>
      \A i \in 0..(Len(output) - 1) :
         /\ FloatTrunc(SrcIdx(i, Ratio(from_rate, RanTo))) < Len(input)
         /\ (i * from_rate) \div RanTo < Len(input)
         /\ ~HasNext(FloatTrunc(SrcIdx(i, Ratio(from_rate, RanTo))),
                     Len(input))
               => output[i + 1] = input[Len(input)]

\* a resampling between different rates whose last output index falls on
\* the last input sample
C33_Witness ==
    /\ Ran
    /\ from_rate # RanTo
    /\ Len(output) >= 2
    /\ Len(input) >= 2
    /\ FloatTrunc(SrcIdx(Len(output) - 1, Ratio(from_rate, RanTo)))
          = Len(input) - 1
    /\ output[Len(output)] = input[Len(input)]

====
